---- MODULE Spec2Model ----
(***************************************************************************)
(* The SOCKS5 proxy of the edgemesh agent (agent/pkg/proxy/socks5_proxy.go) *)
(* as a state machine: the accept loop, one HandleSocksProxy goroutine per  *)
(* accepted connection, the wire codec (handShake, NewRequest), the         *)
(* resolver (getTargetIpByNodeName) and the dispatcher                      *)
(* (proxyConnectToRemote).                                                  *)
(*                                                                          *)
(* Bytes are numbers 0..255, Go strings are sequences of bytes.  A client   *)
(* byte stream is a sequence of fragments: one conn.Read returns bytes of   *)
(* the first fragment only, as a TCP read returns what has arrived.         *)
(***************************************************************************)
EXTENDS Integers, Sequences, FiniteSets, TLC

(* ------------------------------------------------------------------ *)
(* Bounds of the model                                                  *)
(* ------------------------------------------------------------------ *)
NumConns == 2
MaxCuts == 1

Conns == 1..NumConns

(* ------------------------------------------------------------------ *)
(* Constants of socks5_proxy.go                                         *)
(* ------------------------------------------------------------------ *)
Version == 5
DefaultMethod == 0
Success == 0
ATYPIPv4 == 1
ATYPDomain == 3
ATYPIPv6 == 4
CmdConnect == 1

\* "edgemesh-agent"
AgentPodName == <<101, 100, 103, 101, 109, 101, 115, 104, 45, 97, 103, 101, 110, 116>>

DefaultResponse == <<Version, Success, 0, 1, 0, 0, 0, 0, 0, 0>>

\* Socks5Proxy.NodeName, the agent's own node name as configured: "n"
NodeName == <<110>>

(* ------------------------------------------------------------------ *)
(* Helpers                                                              *)
(* ------------------------------------------------------------------ *)
Min(a, b) == IF a < b THEN a ELSE b

\* make([]byte, k): k zero bytes
Zeros(k) == [i \in 1..k |-> 0]

RECURSIVE Flatten(_)
Flatten(segs) == IF segs = <<>> THEN <<>> ELSE Head(segs) \o Flatten(Tail(segs))

\* strconv-style decimal rendering of a number 0..255 as ASCII bytes
Itoa(n) ==
    IF n < 10 THEN <<48 + n>>
    ELSE IF n < 100 THEN <<48 + (n \div 10), 48 + (n % 10)>>
    ELSE <<48 + (n \div 100), 48 + ((n \div 10) % 10), 48 + (n % 10)>>

HexDigit(d) == IF d < 10 THEN 48 + d ELSE 97 + (d - 10)

\* lower-case hexadecimal rendering without leading zeros of a number 0..65535
Hex(n) ==
    IF n < 16 THEN <<HexDigit(n)>>
    ELSE IF n < 256 THEN <<HexDigit(n \div 16), HexDigit(n % 16)>>
    ELSE IF n < 4096 THEN <<HexDigit(n \div 256), HexDigit((n \div 16) % 16), HexDigit(n % 16)>>
    ELSE <<HexDigit(n \div 4096), HexDigit((n \div 256) % 16),
           HexDigit((n \div 16) % 16), HexDigit(n % 16)>>

\* net.IP.To4 applies: a 16-byte address of the IPv4-mapped form ::ffff:a.b.c.d
IsV4Mapped(a) ==
    /\ Len(a) = 16
    /\ \A i \in 1..10 : a[i] = 0
    /\ a[11] = 255
    /\ a[12] = 255

DottedDecimal(a) ==
    Itoa(a[1]) \o <<46>> \o Itoa(a[2]) \o <<46>> \o Itoa(a[3]) \o <<46>> \o Itoa(a[4])

\* the 16-bit group g (0..7) of a 16-byte address
Group(a, g) == a[2 * g + 1] * 256 + a[2 * g + 2]

\* length of the run of zero groups that starts at group g
RECURSIVE ZeroRun(_, _)
ZeroRun(a, g) == IF g > 7 \/ Group(a, g) # 0 THEN 0 ELSE 1 + ZeroRun(a, g + 1)

\* the first longest run of at least two zero groups: <<start, end>> or <<-1, -1>>.
\* The scan of net.IP.String skips over a run once it has measured it.
RECURSIVE LongestZeroRun(_, _, _)
LongestZeroRun(a, g, best) ==
    IF g > 7 THEN best
    ELSE LET n == ZeroRun(a, g)
         IN  IF n > 0 /\ n > best[2] - best[1]
             THEN LongestZeroRun(a, g + n + 1, <<g, g + n>>)
             ELSE LongestZeroRun(a, g + 1, best)

RECURSIVE ColonHex(_, _, _)
ColonHex(a, g, run) ==
    IF g > 7 THEN <<>>
    ELSE IF g = run[1]
         THEN <<58, 58>> \o (IF run[2] > 7 THEN <<>> ELSE Hex(Group(a, run[2])) \o ColonHex(a, run[2] + 1, <<-1, -1>>))
         ELSE (IF g > 0 THEN <<58>> ELSE <<>>) \o Hex(Group(a, g)) \o ColonHex(a, g + 1, run)

\* net.IP(addr).String() for a 4-byte or 16-byte address
IPString(a) ==
    IF Len(a) = 4 THEN DottedDecimal(a)
    ELSE IF IsV4Mapped(a) THEN DottedDecimal(SubSeq(a, 13, 16))
    ELSE LET e == LongestZeroRun(a, 0, <<-1, -1>>)
             run == IF e[2] - e[1] <= 1 THEN <<-1, -1>> ELSE e
         IN  ColonHex(a, 0, run)

\* binary.BigEndian.Uint16(port) converted to int32
BigEndianUint16(p) == p[1] * 256 + p[2]

(* ------------------------------------------------------------------ *)
(* The wire codec                                                       *)
(* ------------------------------------------------------------------ *)

\* One conn.Read(buf) with len(buf) = k on a stream of fragments `segs`.
\* A read of an empty buffer returns at once; a read at the end of the stream
\* returns an error (the client has closed); otherwise the read returns the
\* bytes of the first fragment that fit, and the rest of buf keeps its zeros.
\* The code ignores the count n that Read returns.
Read(segs, k) ==
    IF k = 0 THEN [err |-> FALSE, n |-> 0, data |-> <<>>, rest |-> segs]
    ELSE IF segs = <<>> THEN [err |-> TRUE, n |-> 0, data |-> Zeros(k), rest |-> segs]
    ELSE LET h == Head(segs)
             n == Min(k, Len(h))
         IN  [err  |-> FALSE,
              n    |-> n,
              data |-> SubSeq(h, 1, n) \o Zeros(k - n),
              rest |-> IF n = Len(h) THEN Tail(segs)
                       ELSE <<SubSeq(h, n + 1, Len(h))>> \o Tail(segs)]

\* One conn.Write(buf): the buffer handed to Write and whether Write
\* returned without error.
WriteCall(buf, ok) == [buf |-> buf, ok |-> ok]

\* SocksHandle.handShake on the stream `segs`; wok: whether conn.Write succeeds.
\* err: an error is returned; out: the Write calls made; rest: the unread stream.
handShake(segs, wok) ==
    LET hdr == Read(segs, 2)
        fail(rest) == [err |-> TRUE, out |-> <<>>, rest |-> rest]
    IN  IF hdr.err THEN fail(hdr.rest)
        ELSE IF hdr.data[1] # Version THEN fail(hdr.rest)
        ELSE IF hdr.data[2] = 0 THEN fail(hdr.rest)
        ELSE LET ms == Read(hdr.rest, hdr.data[2])
             IN  IF ms.err THEN fail(ms.rest)
                 ELSE IF ~ \E i \in 1..Len(ms.data) : ms.data[i] = DefaultMethod
                      THEN fail(ms.rest)
                      ELSE [err  |-> ~ wok,
                            out  |-> <<WriteCall(<<Version, Success>>, wok)>>,
                            rest |-> ms.rest]

\* The Request struct
MkRequest(ver, cmd, rsv, atyp, host, port) ==
    [Version |-> ver, Command |-> cmd, Rsv |-> rsv, AddressType |-> atyp,
     DstAddr |-> host, DstPort |-> port]

\* &Request{}: the value NewSocks5Proxy stores in SocksHandle.Request
ZeroRequest == MkRequest(0, 0, 0, 0, <<>>, 0)

\* The address part of NewRequest: the bytes read for the address type atyp,
\* rendered as the host string.
ReadHost(segs, atyp) ==
    IF atyp = ATYPIPv4
    THEN LET a == Read(segs, 4)
         IN  [err |-> a.err, host |-> IPString(a.data), rest |-> a.rest]
    ELSE IF atyp = ATYPIPv6
    THEN LET a == Read(segs, 16)
         IN  [err |-> a.err, host |-> IPString(a.data), rest |-> a.rest]
    ELSE IF atyp = ATYPDomain
    THEN LET dal == Read(segs, 1)
         IN  IF dal.err THEN [err |-> TRUE, host |-> <<>>, rest |-> dal.rest]
             ELSE LET a == Read(dal.rest, dal.data[1])
                  IN  [err |-> a.err, host |-> a.data, rest |-> a.rest]
    ELSE [err |-> TRUE, host |-> <<>>, rest |-> segs]

\* SocksHandle.NewRequest on the stream `segs`.
\* err: an error is returned (and s.Request is not assigned); req: the Request
\* that is assigned to s.Request otherwise.
NewRequest(segs) ==
    LET hdr == Read(segs, 4)
        fail(rest) == [err |-> TRUE, req |-> ZeroRequest, rest |-> rest]
    IN  IF hdr.err THEN fail(hdr.rest)
        ELSE IF hdr.data[1] # Version THEN fail(hdr.rest)
        ELSE LET h == ReadHost(hdr.rest, hdr.data[4])
             IN  IF h.err THEN fail(h.rest)
                 ELSE LET port == Read(h.rest, 2)
                      IN  IF port.err THEN fail(port.rest)
                          ELSE [err  |-> FALSE,
                                req  |-> MkRequest(hdr.data[1], hdr.data[2], hdr.data[3],
                                                   hdr.data[4], h.host,
                                                   BigEndianUint16(port.data)),
                                rest |-> port.rest]

(* ------------------------------------------------------------------ *)
(* The resolver                                                         *)
(* ------------------------------------------------------------------ *)

\* strings.Contains(s, sub)
Contains(s, sub) ==
    \E i \in 0..(Len(s) - Len(sub)) : SubSeq(s, i + 1, i + Len(sub)) = sub

\* the loop without the test of the pod name: every listed pod matches
RECURSIVE ScanPods_AnyPod(_, _)
ScanPods_AnyPod(items, acc) ==
    IF items = <<>> THEN acc
    ELSE ScanPods_AnyPod(Tail(items), [ip |-> Head(items).PodIP, err |-> FALSE])

\* the loop that keeps the first pod whose name matches
RECURSIVE ScanPods_FirstMatch(_, _)
ScanPods_FirstMatch(items, acc) ==
    IF items = <<>> THEN acc
    ELSE LET pod == Head(items)
         IN  ScanPods_FirstMatch(Tail(items),
                                 IF Contains(pod.Name, AgentPodName) /\ acc.err
                                 THEN [ip |-> pod.PodIP, err |-> FALSE]
                                 ELSE acc)

\* The loop of getTargetIpByNodeName over pods.Items: every item whose name
\* contains AgentPodName overwrites ip and clears err.
RECURSIVE ScanPods(_, _)
ScanPods(items, acc) ==
    IF items = <<>> THEN acc
    ELSE LET pod == Head(items)
         IN  ScanPods(Tail(items),
                      IF Contains(pod.Name, AgentPodName)
                      THEN [ip |-> pod.PodIP, err |-> FALSE]
                      ELSE acc)

\* getTargetIpByNodeName given the answer of the List call: listErr when the
\* call failed, items the pods it returned otherwise.
getTargetIpByNodeName(listErr, items) ==
    IF listErr THEN [ip |-> "", err |-> TRUE]
    ELSE ScanPods(items, [ip |-> "", err |-> TRUE])

(* ------------------------------------------------------------------ *)
(* The environment: clients, the cluster backend                        *)
(* ------------------------------------------------------------------ *)

\* Handshake and request messages of clients ("m", "k": other nodes; "n": own node)
HandshakeNoAuth == <<5, 1, 0>>
HandshakeTwoMethods == <<5, 2, 2, 0>>
HandshakeNoAcceptable == <<5, 2, 1, 2>>
HandshakeBadVersion == <<4, 1, 0>>
HandshakeNoMethods == <<5, 0>>
ConnectM == <<5, 1, 0, 3, 1, 109, 0, 80>>
ConnectSelf == <<5, 1, 0, 3, 1, 110, 0, 81>>
ConnectIPv4 == <<5, 1, 0, 1, 10, 0, 0, 5, 1, 187>>
ConnectIPv6 == <<5, 1, 0, 4, 32, 1, 13, 184, 0, 0, 0, 0, 0, 0, 0, 0, 0, 0, 0, 1, 0, 80>>
ConnectEmptyName == <<5, 1, 0, 3, 0, 0, 80>>
BindM == <<5, 2, 0, 3, 1, 109, 0, 82>>
BadAddressType == <<5, 1, 0, 9, 1, 109, 0, 80>>
BadRequestVersion == <<4, 1, 0, 3, 1, 109, 0, 80>>

\* every way to cut one message of the stream segs in two
Cut1(segs) ==
    UNION { { SubSeq(segs, 1, i - 1)
                \o <<SubSeq(segs[i], 1, j), SubSeq(segs[i], j + 1, Len(segs[i]))>>
                \o SubSeq(segs, i + 1, Len(segs)) : j \in 1..(Len(segs[i]) - 1) }
            : i \in 1..Len(segs) }

\* the streams of S and every fragmentation of them by at most n cuts
RECURSIVE Fragmentations(_, _)
Fragmentations(S, n) ==
    IF n = 0 THEN S ELSE Fragmentations(S \cup UNION { Cut1(s) : s \in S }, n - 1)

\* what the clients of the proxy send: each message arrives in one piece
ProxyStreams ==
    << <<HandshakeNoAuth, ConnectM>>,
       <<HandshakeNoAuth, ConnectSelf>>, <<HandshakeNoAuth, ConnectIPv4>>,
       <<HandshakeNoAuth, BindM>>, <<HandshakeNoAuth, BadAddressType>> >>

\* what the clients of the codec send, in fragments
CodecStreams ==
    Fragmentations(
        { <<HandshakeNoAuth, ConnectM>>, <<HandshakeTwoMethods, ConnectSelf>>,
          <<HandshakeNoAcceptable, ConnectM>>, <<HandshakeBadVersion, ConnectM>>,
          <<HandshakeNoMethods, ConnectM>>, <<HandshakeNoAuth, ConnectIPv4>>,
          <<HandshakeNoAuth, ConnectIPv6>>, <<HandshakeNoAuth, ConnectEmptyName>>,
          <<HandshakeNoAuth, BindM>>, <<HandshakeNoAuth, BadAddressType>>,
          <<HandshakeNoAuth, BadRequestVersion>>, <<HandshakeNoAuth>> },
        MaxCuts)

\* pod names: "edgemesh-agent-x", "edgemesh-agent-y", "edgemesh-server"
PodAgentX == AgentPodName \o <<45, 120>>
PodAgentY == AgentPodName \o <<45, 121>>
PodServer == <<101, 100, 103, 101, 109, 101, 115, 104, 45, 115, 101, 114, 118, 101, 114>>

Pod(name, ip) == [Name |-> name, PodIP |-> ip]

\* the listings the backend may return for a List call
Listings ==
    { <<>>,
      <<Pod(PodServer, "10.0.0.7")>>,
      <<Pod(PodAgentX, "10.0.0.5")>>,
      <<Pod(PodAgentX, "10.0.0.5"), Pod(PodAgentY, "10.0.0.6")>>,
      <<Pod(PodAgentX, "10.0.0.5"), Pod(PodServer, "10.0.0.7")>>,
      <<Pod(PodAgentY, "10.0.0.6"), Pod(PodServer, "10.0.0.7"), Pod(PodAgentX, "10.0.0.5")>> }

\* the answers of kubeClient.CoreV1().Pods(ns).List: an error or a listing
Answers(listings) ==
    {[err |-> TRUE, items |-> <<>>]} \cup {[err |-> FALSE, items |-> l] : l \in listings}

\* the cluster the proxy runs in: at most one mesh agent found per node
ProxyListings ==
    { <<Pod(PodServer, "10.0.0.7")>>,
      <<Pod(PodAgentX, "10.0.0.5"), Pod(PodServer, "10.0.0.7")>> }

(* ------------------------------------------------------------------ *)
(* State                                                                *)
(* ------------------------------------------------------------------ *)
VARIABLES
    pc,          \* pc[c]: where the handler of connection c is
    sent,        \* sent[c]: the fragments the client of c sends
    input,       \* input[c]: the fragments of c not yet read
    Request,     \* s.SocksHandle.Request, the one Request of the Socks5Proxy
    targetIP,    \* targetIP[c]: the local targetIP of the handler of c
    host,        \* host[c]: the argument host of proxyConnectToRemote for c
    connOpen,    \* connOpen[c]: conn is accepted and not yet closed
    relay,       \* relay[c]: the util.ProxyConn goroutine started for c
    log,         \* log[c]: what has happened on c, in order
    backend,     \* the answers the cluster backend may give to a List call
    acceptErr,   \* err of the last Listener.Accept() of the accept loop
    hung         \* the call of a collaborator that never returns, if there is one

vars == <<pc, sent, input, Request, targetIP, host, connOpen, relay, log, backend, acceptErr, hung>>

Event(ev, arg) == [ev |-> ev, arg |-> arg]

Logged(c, evs) == log' = [log EXCEPT ![c] = @ \o evs]

\* the events of kind ev on connection c
Events(c, ev) == SelectSeq(log[c], LAMBDA e : e.ev = ev)

Happened(c, ev) == \E i \in 1..Len(log[c]) : log[c][i].ev = ev

\* the position of the first event of kind ev on c (0 when there is none)
FirstIndex(c, ev) ==
    LET at == {i \in 1..Len(log[c]) : log[c][i].ev = ev}
    IN  IF at = {} THEN 0 ELSE CHOOSE i \in at : \A j \in at : i <= j

\* no call hangs: every collaborator answers
NoHang == [conn |-> 0, at |-> "none"]

\* The collaborator of the handler of c answers the call made at the step `at`:
\* conn.Read (handShake, NewRequest), the List call of the backend (resolve),
\* GetProxyStream of the tunnel transport (connect).  A call that is not
\* answered blocks the goroutine that made it.
Responds(c, at) == ~ (hung.conn = c /\ hung.at = at)

InitWith(streams, listings, h) ==
    /\ pc = [c \in Conns |-> "listen"]
    /\ hung = h
    /\ sent = streams
    /\ backend = Answers(listings)
    /\ input = sent
    /\ Request = ZeroRequest
    /\ targetIP = [c \in Conns |-> ""]
    /\ host = [c \in Conns |-> <<>>]
    /\ connOpen = [c \in Conns |-> FALSE]
    /\ relay = [c \in Conns |-> "none"]
    /\ log = [c \in Conns |-> <<>>]
    /\ acceptErr = FALSE

\* NewSocks5Proxy, with the clients that will connect
\* Connections differ by what their clients send only, so the clients are
\* taken in the order of ProxyStreams.
Init ==
    \E k \in [Conns -> 1..Len(ProxyStreams)] :
        /\ \A c, d \in Conns : c < d => k[c] <= k[d]
        /\ InitWith([c \in Conns |-> ProxyStreams[k[c]]], ProxyListings, NoHang)

(* ------------------------------------------------------------------ *)
(* Start: the accept loop                                               *)
(* ------------------------------------------------------------------ *)

\* Start that calls the handler itself: the loop waits for the handler to return
Start_goHandler_Inline == \A d \in Conns : pc[d] \in {"listen", "done"}

\* go s.HandleSocksProxy(conn): the loop goes on while the handlers it started
\* run, whatever they are doing
Start_goHandler == TRUE

\* Start that gives up at the first failed Accept
Start_onAcceptError_Return == "return"

\* if err != nil { klog.Warningf(...); continue }
Start_onAcceptError == "continue"

\* the loop of Start is at s.Listener.Accept()
Accepting ==
    /\ Start_goHandler
    /\ acceptErr => Start_onAcceptError = "continue"

\* Accept returns an error: the loop logs and continues.  A failed Accept is a
\* connection attempt that was lost: it happens while clients still connect.
AcceptError ==
    /\ Accepting
    /\ \E c \in Conns : pc[c] = "listen"
    /\ acceptErr' = TRUE
    /\ UNCHANGED <<pc, sent, input, Request, targetIP, host, connOpen, relay, log, backend, hung>>

\* Accept returns the connection c: go s.HandleSocksProxy(conn)
Accept(c) ==
    /\ Accepting
    /\ pc[c] = "listen"
    /\ pc' = [pc EXCEPT ![c] = "handShake"]
    /\ connOpen' = [connOpen EXCEPT ![c] = TRUE]
    /\ Logged(c, <<Event("accept", <<>>)>>)
    /\ acceptErr' = FALSE
    /\ UNCHANGED <<sent, input, Request, targetIP, host, relay, backend, hung>>

(* ------------------------------------------------------------------ *)
(* HandleSocksProxy                                                     *)
(*                                                                      *)
(* One goroutine per accepted connection.  All of them use the one      *)
(* SocksHandle of the Socks5Proxy: NewRequest stores a new Request in    *)
(* s.Request, and the handler loads s.SocksHandle.Request again for      *)
(* every field it uses, without any synchronisation.  Each such load is  *)
(* a step of its own and yields the Request stored last by any handler.  *)
(* The reads and writes of a handler on its own conn are not visible to  *)
(* other handlers, so handShake and NewRequest are one step each.        *)
(* ------------------------------------------------------------------ *)

\* HandleSocksProxy(nil): if conn == nil { return }, before the deferred Close
\* is registered.  The loop has handed over what an Accept without error
\* returned, and the handler returns at once.
HandleSocksProxy_nil ==
    /\ Accepting
    /\ \E c \in Conns : pc[c] = "listen"
    /\ acceptErr' = FALSE
    /\ UNCHANGED <<pc, sent, input, Request, targetIP, host, connOpen, relay, log, backend, hung>>

\* a handler that goes on despite the error
OnError_Ignored(err, next) == next

\* if err != nil { return }: where the handler goes after a call that returned
\* err, next being the step that follows the call
OnError(err, next) == IF err THEN "return" ELSE next

\* ParsingConnect: err = s.handShake(conn)
ParsingConnect_handShake(c) ==
    /\ pc[c] = "handShake"
    /\ Responds(c, "handShake")
    /\ \E wok \in BOOLEAN :
          LET r == handShake(input[c], wok)
          IN  /\ input' = [input EXCEPT ![c] = r.rest]
              /\ Logged(c, [i \in 1..Len(r.out) |-> Event("write", r.out[i])]
                           \o <<Event(IF r.err THEN "handshake_err" ELSE "handshake_ok", <<>>)>>)
              /\ pc' = [pc EXCEPT ![c] = OnError(r.err, "NewRequest")]
    /\ UNCHANGED <<sent, Request, targetIP, host, connOpen, relay, backend, acceptErr, hung>>

\* ParsingConnect: err = s.NewRequest(conn), which assigns s.Request
ParsingConnect_NewRequest(c) ==
    /\ pc[c] = "NewRequest"
    /\ Responds(c, "NewRequest")
    /\ LET r == NewRequest(input[c])
       IN  /\ input' = [input EXCEPT ![c] = r.rest]
           /\ Request' = IF r.err THEN Request ELSE r.req
           /\ Logged(c, <<IF r.err THEN Event("request_err", <<>>)
                          ELSE Event("request_ok", r.req)>>)
           /\ pc' = [pc EXCEPT ![c] = OnError(r.err, "checkAddressType")]
    /\ UNCHANGED <<sent, targetIP, host, connOpen, relay, backend, acceptErr, hung>>

\* s.SocksHandle.Request.AddressType != ATYPDomain
HandleSocksProxy_checkAddressType(c) ==
    /\ pc[c] = "checkAddressType"
    /\ IF Request.AddressType # ATYPDomain
       THEN /\ pc' = [pc EXCEPT ![c] = "return"]
            /\ Logged(c, <<Event("rejected", <<>>)>>)
       ELSE /\ pc' = [pc EXCEPT ![c] = "checkDstAddr"]
            /\ UNCHANGED log
    /\ UNCHANGED <<sent, input, Request, targetIP, host, connOpen, relay, backend, acceptErr, hung>>

\* || s.SocksHandle.Request.DstAddr == s.NodeName
HandleSocksProxy_checkDstAddr(c) ==
    /\ pc[c] = "checkDstAddr"
    /\ IF Request.DstAddr = NodeName
       THEN /\ pc' = [pc EXCEPT ![c] = "return"]
            /\ Logged(c, <<Event("rejected", <<>>)>>)
       ELSE /\ pc' = [pc EXCEPT ![c] = "resolve"]
            /\ UNCHANGED log
    /\ UNCHANGED <<sent, input, Request, targetIP, host, connOpen, relay, backend, acceptErr, hung>>

\* a handler that keeps the IP another handler has got for the same node name
\* and asks the backend only when there is none
HandleSocksProxy_resolve_Cached(c) ==
    /\ pc[c] = "resolve"
    /\ Responds(c, "resolve")
    /\ LET nodeName == Request.DstAddr
           known == { d \in Conns \ {c} :
                        /\ targetIP[d] # ""
                        /\ \E i \in 1..Len(log[d]) :
                              log[d][i].ev = "query" /\ log[d][i].arg.nodeName = nodeName }
       IN  IF known # {}
           THEN \E d \in known :
                   /\ targetIP' = [targetIP EXCEPT ![c] = targetIP[d]]
                   /\ Logged(c, <<Event("resolved", targetIP[d])>>)
                   /\ pc' = [pc EXCEPT ![c] = "checkCommand"]
           ELSE \E ans \in backend :
                   LET r == getTargetIpByNodeName(ans.err, ans.items)
                   IN  /\ targetIP' = [targetIP EXCEPT ![c] = r.ip]
                       /\ Logged(c, <<Event("query", [nodeName |-> nodeName, answer |-> ans]),
                                      IF r.err THEN Event("resolve_err", <<>>)
                                      ELSE Event("resolved", r.ip)>>)
                       /\ pc' = [pc EXCEPT ![c] = OnError(r.err, "checkCommand")]
    /\ UNCHANGED <<sent, input, Request, host, connOpen, relay, backend, acceptErr, hung>>

\* targetIP, err := s.getTargetIpByNodeName(s.SocksHandle.Request.DstAddr)
HandleSocksProxy_resolve(c) ==
    /\ pc[c] = "resolve"
    /\ Responds(c, "resolve")
    /\ \E ans \in backend :
          LET nodeName == Request.DstAddr
              r == getTargetIpByNodeName(ans.err, ans.items)
          IN  /\ targetIP' = [targetIP EXCEPT ![c] = r.ip]
              /\ Logged(c, <<Event("query", [nodeName |-> nodeName, answer |-> ans]),
                             IF r.err THEN Event("resolve_err", <<>>)
                             ELSE Event("resolved", r.ip)>>)
              /\ pc' = [pc EXCEPT ![c] = OnError(r.err, "checkCommand")]
    /\ UNCHANGED <<sent, input, Request, host, connOpen, relay, backend, acceptErr, hung>>

\* if s.SocksHandle.Request.Command == CmdConnect
HandleSocksProxy_checkCommand(c) ==
    /\ pc[c] = "checkCommand"
    /\ IF Request.Command = CmdConnect
       THEN /\ pc' = [pc EXCEPT ![c] = "readDstAddr"]
            /\ UNCHANGED log
       ELSE /\ pc' = [pc EXCEPT ![c] = "return"]
            /\ Logged(c, <<Event("unsupported", <<>>)>>)
    /\ UNCHANGED <<sent, input, Request, targetIP, host, connOpen, relay, backend, acceptErr, hung>>

\* the argument s.SocksHandle.Request.DstAddr of the call of proxyConnectToRemote
HandleSocksProxy_readDstAddr(c) ==
    /\ pc[c] = "readDstAddr"
    /\ host' = [host EXCEPT ![c] = Request.DstAddr]
    /\ pc' = [pc EXCEPT ![c] = "connect"]
    /\ UNCHANGED <<sent, input, Request, targetIP, connOpen, relay, log, backend, acceptErr, hung>>

\* proxyConnectToRemote without the return after a failed GetProxyStream
proxyConnectToRemote_NoReturn(h, ip, port, streamOK, wok) ==
    LET proxyOpts == [Protocol |-> "tcp", NodeName |-> h, IP |-> ip, Port |-> port]
    IN  <<Event("GetProxyStream", proxyOpts),
          Event(IF streamOK THEN "stream" ELSE "stream_err", <<>>),
          Event("write", WriteCall(DefaultResponse, wok)),
          Event("ProxyConn", <<>>)>>

\* proxyConnectToRemote that replies to the client before it asks for the stream
proxyConnectToRemote_ReplyFirst(h, ip, port, streamOK, wok) ==
    LET proxyOpts == [Protocol |-> "tcp", NodeName |-> h, IP |-> ip, Port |-> port]
    IN  IF ~ streamOK
        THEN <<Event("write", WriteCall(DefaultResponse, wok)),
               Event("GetProxyStream", proxyOpts), Event("stream_err", <<>>)>>
        ELSE <<Event("write", WriteCall(DefaultResponse, wok)),
               Event("GetProxyStream", proxyOpts), Event("stream", <<>>),
               Event("ProxyConn", <<>>)>>

\* proxyConnectToRemote that tells the client of the failed GetProxyStream with
\* a reply of code 01 (general failure)
proxyConnectToRemote_FailureReply(h, ip, port, streamOK, wok) ==
    LET proxyOpts == [Protocol |-> "tcp", NodeName |-> h, IP |-> ip, Port |-> port]
    IN  IF ~ streamOK
        THEN <<Event("GetProxyStream", proxyOpts), Event("stream_err", <<>>),
               Event("write", WriteCall(<<Version, 1, 0, 1, 0, 0, 0, 0, 0, 0>>, wok))>>
        ELSE <<Event("GetProxyStream", proxyOpts), Event("stream", <<>>),
               Event("write", WriteCall(DefaultResponse, wok)),
               Event("ProxyConn", <<>>)>>

\* proxyConnectToRemote that returns when the write of the reply fails
proxyConnectToRemote_ReturnOnWriteError(h, ip, port, streamOK, wok) ==
    LET proxyOpts == [Protocol |-> "tcp", NodeName |-> h, IP |-> ip, Port |-> port]
    IN  IF ~ streamOK
        THEN <<Event("GetProxyStream", proxyOpts), Event("stream_err", <<>>)>>
        ELSE <<Event("GetProxyStream", proxyOpts), Event("stream", <<>>),
               Event("write", WriteCall(DefaultResponse, wok))>>
             \o (IF wok THEN <<Event("ProxyConn", <<>>)>> ELSE <<>>)

\* The events of proxyConnectToRemote(host, targetIP, port, conn): streamOK
\* when GetProxyStream returns a stream, wok when conn.Write succeeds.
proxyConnectToRemote(h, ip, port, streamOK, wok) ==
    LET proxyOpts == [Protocol |-> "tcp", NodeName |-> h, IP |-> ip, Port |-> port]
    IN  IF ~ streamOK
        THEN <<Event("GetProxyStream", proxyOpts), Event("stream_err", <<>>)>>
        ELSE <<Event("GetProxyStream", proxyOpts), Event("stream", <<>>),
               Event("write", WriteCall(DefaultResponse, wok)),
               Event("ProxyConn", <<>>)>>

\* the argument s.SocksHandle.Request.DstPort, and the call of proxyConnectToRemote
HandleSocksProxy_connect(c) ==
    /\ pc[c] = "connect"
    /\ Responds(c, "connect")
    /\ \E streamOK \in BOOLEAN, wok \in BOOLEAN :
          LET evs == proxyConnectToRemote(host[c], targetIP[c], Request.DstPort, streamOK, wok)
          IN  /\ Logged(c, evs)
              /\ relay' = [relay EXCEPT ![c] =
                              IF \E i \in 1..Len(evs) : evs[i].ev = "ProxyConn"
                              THEN "copying" ELSE @]
    /\ pc' = [pc EXCEPT ![c] = "return"]
    /\ UNCHANGED <<sent, input, Request, targetIP, host, connOpen, backend, acceptErr, hung>>

\* defer conn.Close() left out
DeferredClose_Missing(c) == FALSE

\* Whether the handler closes conn when it returns: defer conn.Close()
DeferredClose(c) == TRUE

\* the return of HandleSocksProxy, which runs the deferred conn.Close()
HandleSocksProxy_return(c) ==
    /\ pc[c] = "return"
    /\ pc' = [pc EXCEPT ![c] = "done"]
    /\ IF DeferredClose(c)
       THEN /\ connOpen' = [connOpen EXCEPT ![c] = FALSE]
            /\ Logged(c, <<Event("Close", <<>>)>>)
       ELSE UNCHANGED <<connOpen, log>>
    /\ UNCHANGED <<sent, input, Request, targetIP, host, relay, backend, acceptErr, hung>>

\* util.ProxyConn(stream, conn) ends: it closes the stream and conn
ProxyConn(c) ==
    /\ relay[c] = "copying"
    /\ relay' = [relay EXCEPT ![c] = "closed"]
    /\ connOpen' = [connOpen EXCEPT ![c] = FALSE]
    /\ Logged(c, <<Event("relay_close", <<>>)>>)
    /\ UNCHANGED <<pc, sent, input, Request, targetIP, host, backend, acceptErr, hung>>

Next ==
    \/ AcceptError
    \/ \E c \in Conns : Accept(c)
    \/ HandleSocksProxy_nil
    \/ \E c \in Conns : ParsingConnect_handShake(c)
    \/ \E c \in Conns : ParsingConnect_NewRequest(c)
    \/ \E c \in Conns : HandleSocksProxy_checkAddressType(c)
    \/ \E c \in Conns : HandleSocksProxy_checkDstAddr(c)
    \/ \E c \in Conns : HandleSocksProxy_resolve(c)
    \/ \E c \in Conns : HandleSocksProxy_checkCommand(c)
    \/ \E c \in Conns : HandleSocksProxy_readDstAddr(c)
    \/ \E c \in Conns : HandleSocksProxy_connect(c)
    \/ \E c \in Conns : HandleSocksProxy_return(c)
    \/ \E c \in Conns : ProxyConn(c)

Spec == Init /\ [][Next]_vars

\* the codec on fragmented input: one client sends, the others close at once
InitCodec ==
    \E s \in CodecStreams :
        InitWith([c \in Conns |-> IF c = 1 THEN s ELSE <<>>], Listings, NoHang)

SpecCodec == InitCodec /\ [][Next]_vars

\* the steps of the goroutine that handles connection c
Handler(c) ==
    \/ ParsingConnect_handShake(c)
    \/ ParsingConnect_NewRequest(c)
    \/ HandleSocksProxy_checkAddressType(c)
    \/ HandleSocksProxy_checkDstAddr(c)
    \/ HandleSocksProxy_resolve(c)
    \/ HandleSocksProxy_checkCommand(c)
    \/ HandleSocksProxy_readDstAddr(c)
    \/ HandleSocksProxy_connect(c)
    \/ HandleSocksProxy_return(c)

\* what the clients send when one of the connections stalls: requests that
\* are dispatched, rejected, unsupported and malformed
LiveStreams ==
    << <<HandshakeNoAuth, ConnectM>>, <<HandshakeNoAuth, ConnectSelf>>,
       <<HandshakeNoAuth, BindM>>, <<HandshakeNoAuth, BadAddressType>> >>

\* the calls that wait for a collaborator
HangPlaces == {"handShake", "NewRequest", "resolve", "connect"}

\* The proxy with one connection whose client, backend call or tunnel
\* transport never answers.  Connections differ by their clients only: the
\* first is the one that stalls, the second has any client, and the clients
\* of the others connect and close.
InitLive ==
    \E at \in HangPlaces, k \in [1..2 -> 1..Len(LiveStreams)] :
        InitWith([c \in Conns |-> IF c <= 2 THEN LiveStreams[k[c]] ELSE <<>>],
                 ProxyListings, [conn |-> 1, at |-> at])

\* the goroutine of c has a step to take: ENABLED Handler(c)
Runnable(c) ==
    /\ pc[c] \notin {"listen", "done"}
    /\ Responds(c, pc[c])

\* The scheduler runs every goroutine that can take a step: the accept loop
\* returns every client that connects, and a handler whose call has been
\* answered goes on.  Nothing is assumed about the end of a relay.
\* The second conjunct is WF_vars(Handler(c)), with Runnable(c) written for
\* ENABLED <<Handler(c)>>_vars.
Fairness ==
    \A c \in Conns :
        /\ WF_vars(Accept(c))
        /\ []<>(~ Runnable(c)) \/ []<><<Handler(c)>>_vars

SpecLive == InitLive /\ [][Next]_vars /\ Fairness

(* ------------------------------------------------------------------ *)
(* Properties                                                           *)
(* ------------------------------------------------------------------ *)

\* the Request parsed from the byte stream of connection c
ParsedOK(c) == Happened(c, "request_ok")
ParsedOf(c) == log[c][FirstIndex(c, "request_ok")].arg

\* the handler of c is between the end of its request parsing and its
\* dispatch or rejection: every step there reads s.SocksHandle.Request
Deciding(c) ==
    pc[c] \in {"checkAddressType", "checkDstAddr", "resolve", "checkCommand",
               "readDstAddr", "connect"}

\* the positions in log[c] of the writes of the 10-byte success reply
SuccessReplies(c) ==
    { i \in 1..Len(log[c]) :
        /\ log[c][i].ev = "write"
        /\ log[c][i].arg.buf = <<5, 0, 0, 1, 0, 0, 0, 0, 0, 0>> }

\* the number of conn.Close() calls of the handler of c
HandlerCloses(c) == Len(Events(c, "Close"))

Dispatched(c) == Happened(c, "ProxyConn")

\* C1: while the handler of a connection is between the end of its request
\* parsing and its dispatch or rejection, the Request it reads has the address
\* type, destination name, port and command parsed from its own connection.
C1_HandlerReadsOwnRequest ==
    \A c \in Conns :
        Deciding(c) =>
            /\ Request.AddressType = ParsedOf(c).AddressType
            /\ Request.DstAddr = ParsedOf(c).DstAddr
            /\ Request.DstPort = ParsedOf(c).DstPort
            /\ Request.Command = ParsedOf(c).Command

\* C2: once the relay has been started for a connection the handler does not
\* close the client connection: it stays open while the relay is copying.
C2_HandlerLeavesConnToRelay ==
    \A c \in Conns :
        /\ Dispatched(c) => HandlerCloses(c) = 0
        /\ relay[c] = "copying" => connOpen[c]

\* C3: a connection whose handling ends without dispatch has been closed by
\* the handler exactly once when the handler has returned, and is not closed
\* by the handler before; no such connection is left open.
C3_ClosedOnceWithoutDispatch ==
    \A c \in Conns :
        /\ HandlerCloses(c) <= 1
        /\ (pc[c] = "done" /\ ~ Dispatched(c)) => (HandlerCloses(c) = 1 /\ ~ connOpen[c])
        /\ (pc[c] \notin {"listen", "done"}) => (HandlerCloses(c) = 0 /\ (~ Dispatched(c) => connOpen[c]))

C3_Witness ==
    \E c, d \in Conns :
        /\ pc[c] = "done" /\ Happened(c, "stream_err") /\ HandlerCloses(c) = 1 /\ ~ connOpen[c]
        /\ pc[d] = "done" /\ Happened(d, "request_err") /\ HandlerCloses(d) = 1 /\ ~ connOpen[d]

\* C4: a connection whose parsed request names the own node is rejected: no
\* backend query, no tunnel-stream request and no success reply for it, and it
\* is closed when its handler is done.
C4_SelfDestinationRejected ==
    \A c \in Conns :
        (ParsedOK(c) /\ ParsedOf(c).DstAddr = NodeName) =>
            /\ ~ Happened(c, "query")
            /\ ~ Happened(c, "GetProxyStream")
            /\ SuccessReplies(c) = {}
            /\ pc[c] = "done" => ~ connOpen[c]

\* C5: every query sent to the backend is for the destination name of a parsed
\* request of address type domain-name, and never for the own node name.
C5_QueriesOnlyForForeignDomainNames ==
    \A c \in Conns :
        \A i \in 1..Len(log[c]) :
            log[c][i].ev = "query" =>
                /\ log[c][i].arg.nodeName # NodeName
                /\ \E d \in Conns :
                      /\ ParsedOK(d)
                      /\ ParsedOf(d).AddressType = ATYPDomain
                      /\ ParsedOf(d).DstAddr = log[c][i].arg.nodeName

\* C6: on one connection the handshake precedes the request parsing, which
\* precedes the backend query and the tunnel-stream request; after a failed
\* handshake or a failed request parsing there is no query and no
\* tunnel-stream request.
C6_HandshakeThenRequestThenDispatch ==
    \A c \in Conns :
        LET hsOK == FirstIndex(c, "handshake_ok")
            reqOK == FirstIndex(c, "request_ok")
            reqErr == FirstIndex(c, "request_err")
            query == FirstIndex(c, "query")
            tunnel == FirstIndex(c, "GetProxyStream")
        IN  /\ (reqOK > 0 \/ reqErr > 0) =>
                  /\ hsOK > 0
                  /\ hsOK < reqOK + reqErr
            /\ query > 0 =>
                  /\ reqOK > 0
                  /\ reqOK < query
            /\ tunnel > 0 =>
                  /\ hsOK > 0 /\ reqOK > 0
                  /\ hsOK < reqOK
                  /\ reqOK < tunnel
            /\ (Happened(c, "handshake_err") \/ reqErr > 0) =>
                  /\ query = 0
                  /\ tunnel = 0
                  /\ reqOK = 0

C6_Witness ==
    \E c, d \in Conns :
        /\ Happened(c, "GetProxyStream")
        /\ Happened(d, "handshake_err") /\ pc[d] = "done"

\* a listing without any pod whose name contains the mesh-agent name
NoAgentListed(items) ==
    \A j \in 1..Len(items) : ~ Contains(items[j].Name, <<101, 100, 103, 101, 109, 101, 115, 104, 45, 97, 103, 101, 110, 116>>)

\* C7: when the backend call fails or lists no mesh-agent workload, the
\* resolution fails: the handler returns, no tunnel-stream request and no
\* success reply follow, and the connection is closed.
C7_ResolveFailureStops ==
    \A c \in Conns :
        \A i \in 1..Len(log[c]) :
            (log[c][i].ev = "query" /\ (log[c][i].arg.answer.err \/ NoAgentListed(log[c][i].arg.answer.items))) =>
                /\ log[c][i + 1].ev = "resolve_err"
                /\ pc[c] \in {"return", "done"}
                /\ ~ Happened(c, "GetProxyStream")
                /\ SuccessReplies(c) = {}
                /\ relay[c] = "none"
                /\ pc[c] = "done" => (~ connOpen[c] /\ HandlerCloses(c) = 1)

C7_Witness ==
    \E c, d \in Conns :
        /\ pc[c] = "done" /\ ~ connOpen[c]
        /\ \E i \in 1..Len(log[c]) :
              /\ log[c][i].ev = "query"
              /\ ~ log[c][i].arg.answer.err
              /\ log[c][i].arg.answer.items # <<>>
              /\ NoAgentListed(log[c][i].arg.answer.items)
        /\ pc[d] = "done"
        /\ \E i \in 1..Len(log[d]) : log[d][i].ev = "query" /\ log[d][i].arg.answer.err

\* C8: when the tunnel transport returns no stream, nothing is written to the
\* client after the handshake reply, no relay is started, and the connection
\* is closed.
C8_TunnelFailureAborts ==
    \A c \in Conns :
        Happened(c, "stream_err") =>
            /\ \A i \in 1..Len(log[c]) :
                  log[c][i].ev = "write" =>
                      (i < FirstIndex(c, "handshake_ok") /\ log[c][i].arg.buf = <<5, 0>>)
            /\ ~ Dispatched(c)
            /\ relay[c] = "none"
            /\ pc[c] \in {"return", "done"}
            /\ pc[c] = "done" => (~ connOpen[c] /\ HandlerCloses(c) = 1)

C8_Witness ==
    \E c \in Conns : Happened(c, "stream_err") /\ pc[c] = "done" /\ ~ connOpen[c]

\* C9: the 10-byte success reply 05 00 00 01 00 00 00 00 00 00 is written at
\* most once per connection, only after the tunnel transport has returned a
\* stream, and a relay is started only after the reply has been written once.
C9_ReplyOnceAfterStreamBeforeRelay ==
    \A c \in Conns :
        LET replies == SuccessReplies(c)
        IN  /\ Cardinality(replies) <= 1
            /\ \A i \in replies :
                  /\ Happened(c, "stream")
                  /\ FirstIndex(c, "stream") < i
                  /\ Len(log[c][i].arg.buf) = 10
            /\ Happened(c, "stream") => Cardinality(replies) = 1
            /\ Dispatched(c) =>
                  /\ Cardinality(replies) = 1
                  /\ \A i \in replies : i < FirstIndex(c, "ProxyConn")

\* a connection with a valid handshake and a CONNECT request to a resolvable
\* domain destination other than the own node, dispatched with its own request
C9_Witness ==
    \E c \in Conns :
        /\ Happened(c, "handshake_ok")
        /\ ParsedOK(c)
        /\ ParsedOf(c).Command = 1
        /\ ParsedOf(c).AddressType = 3
        /\ ParsedOf(c).DstAddr # NodeName
        /\ Happened(c, "resolved")
        /\ Dispatched(c)
        /\ log[c][FirstIndex(c, "GetProxyStream")].arg.NodeName = ParsedOf(c).DstAddr
        /\ \E i \in SuccessReplies(c) : log[c][i].arg.ok

\* the bytes b begin with a handshake of version 5 that offers at least one
\* method, among them the no-authentication method 0
ValidHandshake(b) ==
    /\ Len(b) >= 2
    /\ b[1] = 5
    /\ b[2] >= 1
    /\ Len(b) >= 2 + b[2]
    /\ \E i \in 3..(2 + b[2]) : b[i] = 0

\* C10: every handshake of version 5 with at least one method and with the
\* no-authentication method in its list succeeds and writes exactly the two
\* bytes 05 00 (unless the write itself fails).
C10_ValidHandshakeSucceeds ==
    \A c \in Conns :
        (/\ pc[c] \notin {"listen", "handShake"}
         /\ ValidHandshake(Flatten(sent[c]))
         /\ \A i \in 1..Len(log[c]) : log[c][i].ev = "write" => log[c][i].arg.ok) =>
            /\ Happened(c, "handshake_ok")
            /\ \E i \in 1..Len(log[c]) :
                  /\ i < FirstIndex(c, "handshake_ok")
                  /\ log[c][i].ev = "write"
                  /\ log[c][i].arg.buf = <<5, 0>>
                  /\ \A j \in 1..(FirstIndex(c, "handshake_ok") - 1) :
                        log[c][j].ev = "write" => j = i

\* the bytes b begin with a handshake that the protocol refuses: its version
\* is not 5, or it offers no method, or its complete method list lacks the
\* no-authentication method 0
RefusedHandshake(b) ==
    /\ Len(b) >= 2
    /\ \/ b[1] # 5
       \/ b[2] = 0
       \/ /\ Len(b) >= 2 + b[2]
          /\ \A i \in 3..(2 + b[2]) : b[i] # 0

\* C11: every handshake whose version is not 5, whose method count is zero or
\* whose method list lacks the no-authentication method fails with an error
\* and without any write to the client, however its bytes are split in reads.
C11_RefusedHandshakeFails ==
    \A c \in Conns :
        (pc[c] \notin {"listen", "handShake"} /\ RefusedHandshake(Flatten(sent[c]))) =>
            /\ Happened(c, "handshake_err")
            /\ ~ Happened(c, "handshake_ok")
            /\ ~ Happened(c, "write")

\* C12: a connection that stalls for ever at a client read, at the backend
\* query or at the tunnel-stream acquisition holds up nothing else: every
\* client that connects is accepted, and every other accepted connection runs
\* to the end of its handler (dispatched, rejected or failed).
C12_StallHoldsUpNoOther ==
    \A d \in Conns :
        /\ (pc[d] = "listen") ~> (pc[d] # "listen")
        /\ (pc[d] # "listen" /\ hung.conn # d) ~> (pc[d] = "done")

\* one connection is stuck in its call while another has been dispatched and
\* its handler has returned
C12_Witness ==
    \E c, d \in Conns :
        /\ hung.conn = c /\ pc[c] = hung.at
        /\ d # c /\ pc[d] = "done" /\ Dispatched(d)
        /\ Len(log[c]) < Len(log[d])

\* the buffers handed to conn.Write on connection c, in order
Writes(c) ==
    LET w == Events(c, "write") IN [i \in 1..Len(w) |-> w[i].arg.buf]

\* the handler of c has taken a path of failure or rejection
Failed(c) ==
    \/ Happened(c, "handshake_err") \/ Happened(c, "request_err")
    \/ Happened(c, "rejected") \/ Happened(c, "resolve_err")
    \/ Happened(c, "unsupported") \/ Happened(c, "stream_err")

\* C13: the writes to a client are the handshake reply 05 00, and after it at
\* most the 10-byte success reply, which is written only once the tunnel stream
\* is there; on a path of failure or rejection nothing follows the handshake
\* reply, and no reply carries a reply code other than 00.
C13_OnlyHandshakeAndSuccessReply ==
    \A c \in Conns :
        LET w == Writes(c)
        IN  /\ w \in { <<>>, << <<5, 0>> >>, << <<5, 0>>, <<5, 0, 0, 1, 0, 0, 0, 0, 0, 0>> >> }
            /\ Len(w) = 2 <=> Happened(c, "stream")
            /\ Len(w) = 2 => ~ Failed(c)
            /\ \A i \in 1..Len(w) : w[i][2] = 0

\* one connection got both replies, one was refused after the handshake reply,
\* and both handlers have returned
C13_Witness ==
    \E c, d \in Conns :
        /\ pc[c] = "done" /\ Len(Writes(c)) = 2
        /\ pc[d] = "done" /\ Happened(d, "stream_err") /\ Len(Writes(d)) = 1

\* C14: a failed Accept does not end the accept loop: whenever a client is
\* waiting, the loop can accept it, also right after a failed Accept; the step
\* that accepts a connection starts the handler of that connection and of no
\* other; and the handler of a nil connection reads, writes and closes nothing.
C14_AcceptLoopGoesOn ==
    /\ [](\A c \in Conns : pc[c] = "listen" => ENABLED Accept(c))
    /\ [][\A c \in Conns :
             (pc[c] = "listen" /\ pc'[c] # "listen") =>
                 /\ pc'[c] = "handShake"
                 /\ connOpen'[c]
                 /\ log'[c] = <<Event("accept", <<>>)>>
                 /\ ~ acceptErr'
                 /\ \A d \in Conns \ {c} :
                       pc'[d] = pc[d] /\ log'[d] = log[d] /\ connOpen'[d] = connOpen[d]]_vars
    /\ [][HandleSocksProxy_nil => UNCHANGED <<pc, input, connOpen, log, Request, relay>>]_vars

\* an Accept has just failed after a connection was handled to its end, and
\* the loop is ready to accept the client that waits
C14_Witness ==
    \E c, d \in Conns :
        /\ acceptErr
        /\ pc[c] = "done"
        /\ pc[d] = "listen"
        /\ ENABLED Accept(d)

\* the bytes the client of c sends, arriving in one piece
Whole(c) == IF Flatten(sent[c]) = <<>> THEN <<>> ELSE <<Flatten(sent[c])>>

\* the handshake and the request parsing of c on the bytes in one piece
WholeHandshake(c) == handShake(Whole(c), TRUE)
WholeRequest(c) == NewRequest(WholeHandshake(c).rest)

\* C15: whatever the fragments in which the bytes of a client arrive, the
\* handshake and the request parsing end as they do when the same bytes arrive
\* in one piece: the same success or error, the same writes, the same Request
\* (the writes themselves succeeding).
C15_FragmentsParseAsWhole ==
    \A c \in Conns :
        (\A i \in 1..Len(log[c]) : log[c][i].ev = "write" => log[c][i].arg.ok) =>
            /\ pc[c] \notin {"listen", "handShake"} =>
                  /\ Happened(c, "handshake_ok") <=> ~ WholeHandshake(c).err
                  /\ Happened(c, "handshake_err") <=> WholeHandshake(c).err
                  /\ \A i \in 1..Len(WholeHandshake(c).out) :
                        /\ i <= Len(Writes(c))
                        /\ Writes(c)[i] = WholeHandshake(c).out[i].buf
                  /\ WholeHandshake(c).out = <<>> => Writes(c) = <<>>
            /\ (pc[c] \notin {"listen", "handShake", "NewRequest"} /\ Happened(c, "handshake_ok")) =>
                  /\ ParsedOK(c) <=> ~ WholeRequest(c).err
                  /\ ParsedOK(c) => ParsedOf(c) = WholeRequest(c).req

\* the request parsed on c is well formed, of address type domain name, for
\* another node than the own, and its command is not CONNECT
ForeignNonConnect(c) ==
    /\ ParsedOK(c)
    /\ ParsedOf(c).AddressType = 3
    /\ ParsedOf(c).DstAddr # NodeName
    /\ ParsedOf(c).Command # 1

\* C16: a connection whose request is well formed, of address type domain
\* name, for another node and with a command other than CONNECT gets no
\* tunnel-stream request, no success reply and no relay, and is closed when its
\* handler is done.
C16_NonConnectRejected ==
    \A c \in Conns :
        ForeignNonConnect(c) =>
            /\ ~ Happened(c, "GetProxyStream")
            /\ SuccessReplies(c) = {}
            /\ relay[c] = "none"
            /\ pc[c] = "done" => (~ connOpen[c] /\ HandlerCloses(c) = 1)

\* C17: every tunnel stream the transport returns is handed to one relay, also
\* when the write of the success reply fails: a connection has as many relays
\* started as streams returned, at most one, the relay is started after the
\* stream was returned, and it is the relay of that connection.
C17_StreamAlwaysRelayed ==
    \A c \in Conns :
        LET streams == Len(Events(c, "stream"))
        IN  /\ Len(Events(c, "ProxyConn")) = streams
            /\ streams <= 1
            /\ streams = 1 =>
                  /\ FirstIndex(c, "stream") < FirstIndex(c, "ProxyConn")
                  /\ relay[c] \in {"copying", "closed"}
            /\ relay[c] # "none" => streams = 1

\* the write of the success reply failed and the relay was started all the same
C17_Witness ==
    \E c \in Conns :
        /\ Happened(c, "stream")
        /\ \E i \in SuccessReplies(c) : ~ log[c][i].arg.ok /\ i < FirstIndex(c, "ProxyConn")
        /\ relay[c] = "copying"

\* the bytes the client of c sends after its handshake message
RequestBytes(c) ==
    LET b == Flatten(sent[c]) IN SubSeq(b, 3 + b[2], Len(b))

\* b begins with a complete request message of version 5 and of address type
\* IPv4, domain name or IPv6
WellFormedRequest(b) ==
    /\ Len(b) >= 4
    /\ b[1] = 5
    /\ \/ b[4] = 1 /\ Len(b) >= 10
       \/ b[4] = 4 /\ Len(b) >= 22
       \/ b[4] = 3 /\ Len(b) >= 5 /\ Len(b) >= 7 + b[5]

\* the place of the two port bytes in the request message b
PortAt(b) == IF b[4] = 1 THEN 9 ELSE IF b[4] = 4 THEN 21 ELSE 6 + b[5]

\* C18: the Request decoded from a well-formed request message has the four
\* header bytes of the message as version, command, reserved byte and address
\* type; for a domain name with length byte n the n bytes that follow it as
\* destination (none for n = 0); for IPv4 the four address bytes in dotted
\* decimal; and the two port bytes, the first the more significant, as port,
\* within 0..65535.  A message of any other address type gives an error and
\* no Request.
C18_RequestEqualsWireFields ==
    \A c \in Conns :
        (/\ pc[c] \notin {"listen", "handShake", "NewRequest"}
         /\ ValidHandshake(Flatten(sent[c]))
         /\ Happened(c, "handshake_ok")) =>
            LET b == RequestBytes(c)
            IN  /\ WellFormedRequest(b) =>
                      /\ ParsedOK(c)
                      /\ ParsedOf(c).Version = b[1]
                      /\ ParsedOf(c).Command = b[2]
                      /\ ParsedOf(c).Rsv = b[3]
                      /\ ParsedOf(c).AddressType = b[4]
                      /\ b[4] = 3 => ParsedOf(c).DstAddr = SubSeq(b, 6, 5 + b[5])
                      /\ b[4] = 1 =>
                            ParsedOf(c).DstAddr =
                                Itoa(b[5]) \o <<46>> \o Itoa(b[6]) \o <<46>>
                                    \o Itoa(b[7]) \o <<46>> \o Itoa(b[8])
                      /\ ParsedOf(c).DstPort = 256 * b[PortAt(b)] + b[PortAt(b) + 1]
                      /\ ParsedOf(c).DstPort \in 0..65535
                /\ (Len(b) >= 4 /\ b[4] \notin {1, 3, 4}) =>
                      /\ ~ ParsedOK(c)
                      /\ Happened(c, "request_err")

\* the places in a listing of the pods whose name contains "edgemesh-agent"
AgentsListed(items) ==
    { j \in 1..Len(items) :
        Contains(items[j].Name, <<101, 100, 103, 101, 109, 101, 115, 104, 45, 97, 103, 101, 110, 116>>) }

\* C19: the resolver answers with the pod IP of the last listed pod whose name
\* contains the mesh-agent name, whatever other pods are listed before, between
\* or after; it answers with an error exactly when the backend call failed or
\* no listed pod has such a name.
C19_LastListedAgentWins ==
    \A c \in Conns :
        \A i \in 1..Len(log[c]) :
            log[c][i].ev = "query" =>
                LET ans == log[c][i].arg.answer
                    at == AgentsListed(ans.items)
                IN  /\ i < Len(log[c])
                    /\ log[c][i + 1].ev \in {"resolved", "resolve_err"}
                    /\ log[c][i + 1].ev = "resolve_err" <=> (ans.err \/ at = {})
                    /\ log[c][i + 1].ev = "resolved" =>
                          \E j \in at :
                              /\ \A k \in at : k <= j
                              /\ log[c][i + 1].arg = ans.items[j].PodIP

\* the resolver has answered a listing of two agents with a server between them
\* with the IP of the agent listed last, which is not the pod listed last in
\* every listing it has seen
C19_Witness ==
    \E c \in Conns :
        \E i \in 1..Len(log[c]) :
            /\ log[c][i].ev = "query"
            /\ Cardinality(AgentsListed(log[c][i].arg.answer.items)) = 2
            /\ 2 \notin AgentsListed(log[c][i].arg.answer.items)
            /\ log[c][i + 1].ev = "resolved"
            /\ log[c][i + 1].arg = "10.0.0.5"

\* C20: every tunnel-stream request made on a connection carries the node name
\* and the port of the request parsed on that connection, and the IP that the
\* resolver returned on that connection for a query about that same node name.
C20_TunnelRequestCoherent ==
    \A c \in Conns :
        \A i \in 1..Len(log[c]) :
            log[c][i].ev = "GetProxyStream" =>
                /\ ParsedOK(c)
                /\ log[c][i].arg.NodeName = ParsedOf(c).DstAddr
                /\ log[c][i].arg.Port = ParsedOf(c).DstPort
                /\ \E q \in 1..(i - 2) :
                      /\ log[c][q].ev = "query"
                      /\ log[c][q].arg.nodeName = log[c][i].arg.NodeName
                      /\ log[c][q + 1].ev = "resolved"
                      /\ log[c][q + 1].arg = log[c][i].arg.IP

\* C21: on one connection there is at most one backend query, at most one
\* tunnel-stream request and at most one relay; every resolution follows a
\* query made on the same connection just before it, and its IP is the IP of a
\* pod that this query listed; a tunnel-stream request follows such a
\* resolution of the same connection.
C21_OnceAndFreshPerConnection ==
    \A c \in Conns :
        LET l == log[c]
            at(ev) == { i \in 1..Len(l) : l[i].ev = ev }
            queries == at("query")
            resolutions == at("resolved")
        IN  /\ Cardinality(queries) <= 1
            /\ Cardinality(at("GetProxyStream")) <= 1
            /\ Cardinality(at("ProxyConn")) <= 1
            /\ \A i \in resolutions \cup at("resolve_err") : (i - 1) \in queries
            /\ \A i \in resolutions :
                  /\ ~ l[i - 1].arg.answer.err
                  /\ \E j \in 1..Len(l[i - 1].arg.answer.items) :
                        l[i - 1].arg.answer.items[j].PodIP = l[i].arg
            /\ \A i \in at("GetProxyStream") :
                  \E q \in resolutions : q < i /\ l[q].arg = l[i].arg.IP
            /\ relay[c] # "none" => Cardinality(at("ProxyConn")) = 1

\* two connections asked for the same node name, one after the other has got
\* its IP, and the backend answered the two queries differently: the first got
\* an IP and was dispatched, the second got none
C21_Witness ==
    \E c, d \in Conns :
        /\ c # d
        /\ Happened(c, "resolved") /\ Dispatched(c) /\ pc[c] = "done"
        /\ Happened(d, "resolve_err") /\ pc[d] = "done"
        /\ log[c][FirstIndex(c, "query")].arg.nodeName = log[d][FirstIndex(d, "query")].arg.nodeName
        /\ log[c][FirstIndex(c, "query")].arg.answer # log[d][FirstIndex(d, "query")].arg.answer

====
